---- MODULE Spec2Model ----
(***************************************************************************)
(* Model of medusa-retention-refresher (src/main.go): one reconciliation   *)
(* pass lists the manifests under "<cluster>/", downloads and parses each  *)
(* manifest, resolves the key of every referenced object, queries its      *)
(* Object Lock retention and, where the retention is absent or too short,  *)
(* puts a new retention equal to the pass's target timestamp.              *)
(*                                                                         *)
(* Strings are sequences of symbols: the separator "/" and indivisible     *)
(* name symbols, so that Split, HasPrefix, HasSuffix and concatenation are *)
(* computed as the Go code computes them.  A nil pointer is the empty      *)
(* sequence Nil and a pointer to v is <<v>>.                               *)
(***************************************************************************)
EXTENDS Integers, Sequences, FiniteSets, TLC

(***************************************************************************)
(* Bounds of the model.                                                    *)
(***************************************************************************)
\* timestamps are 0..MaxTime
MaxTime == 2
\* number of passes (runs of the program) in one behaviour
MaxPasses == 2
\* table entries per manifest document (pure-function inputs)
MaxEntries == 2
\* objects per table entry or object list (pure-function inputs)
MaxObjs == 2
\* symbols per manifest key given to extractHostnamePath (pure-function inputs)
MaxKeyLen == 7
\* ListObjectsV2 calls of one findManifests that the model follows
MaxListCalls == 4

Nil == <<>>
Some(v) == <<v>>
Times == 0..MaxTime
OptTime == {Nil} \cup {Some(t) : t \in Times}
\* the target is now + retentionDays with retentionDays > 0; retentions later
\* than every target exist
Targets == 1..(MaxTime - 1)

(***************************************************************************)
(* Strings.                                                                *)
(***************************************************************************)
Slash == <<"/">>

HasPrefix(s, prefix) ==
    /\ Len(s) >= Len(prefix)
    /\ SubSeq(s, 1, Len(prefix)) = prefix

HasSuffix(s, suffix) ==
    /\ Len(s) >= Len(suffix)
    /\ SubSeq(s, Len(s) - Len(suffix) + 1, Len(s)) = suffix

\* strings.Split(s, "/"): the pieces between separators; Split("") = [""]
RECURSIVE SplitFrom(_, _, _)
SplitFrom(s, i, cur) ==
    IF i > Len(s) THEN <<cur>>
    ELSE IF s[i] = "/" THEN <<cur>> \o SplitFrom(s, i + 1, <<>>)
    ELSE SplitFrom(s, i + 1, Append(cur, s[i]))

Split(s) == SplitFrom(s, 1, <<>>)

(***************************************************************************)
(* The bucket.  Keys of the objects that exist, and the keys and paths the *)
(* manifests mention.                                                      *)
(***************************************************************************)
ManifestSuffix == <<"/", "meta", "/", "manifest.json">>

M1 == <<"c", "/", "h1", "/", "b1">> \o ManifestSuffix
M2 == <<"c", "/", "h1", "/", "b2">> \o ManifestSuffix
M3 == <<"c", "/", "h2", "/", "b1">> \o ManifestSuffix
\* a manifest key with only three segments
MS == <<"c">> \o ManifestSuffix
D1 == <<"c", "/", "h1", "/", "data", "/", "f1">>
D2 == <<"c", "/", "h1", "/", "data", "/", "f2">>
\* a key of another cluster's namespace
X1 == <<"x", "/", "h1", "/", "b1">> \o ManifestSuffix

DataKeys == {D1, D2}
StoreKeys == {M1, M2, M3, MS, X1} \cup DataKeys

\* paths as manifests write them: relative to the host, or with the host prefix
RelF1 == <<"data", "/", "f1">>
RelF2 == <<"data", "/", "f2">>
RelF9 == <<"data", "/", "f9">>
AbsF1 == D1
\* the paths drawn for the documents the parser is applied to
Paths == {RelF1, AbsF1}

(***************************************************************************)
(* Manifest documents.  A document is the byte content of a manifest       *)
(* object, described by what a JSON decoder sees in it:                    *)
(*   shape "empty"     no bytes at all                                     *)
(*   shape "malformed" bytes that are not JSON ({invalid})                 *)
(*   shape "null"      the JSON value null                                 *)
(*   shape "scalar"    a JSON string, number or boolean                    *)
(*   shape "object"    a JSON mapping; objs are the {path} records under   *)
(*                     its "objects" key (none when the key is missing)    *)
(*   shape "array"     a JSON sequence; entries are its elements, each a   *)
(*                     per-table record with an object list, a null, or a  *)
(*                     scalar                                              *)
(***************************************************************************)
RECURSIVE SeqsOfLen(_, _)
SeqsOfLen(S, n) ==
    IF n = 0 THEN {<<>>}
    ELSE {Append(s, x) : s \in SeqsOfLen(S, n - 1), x \in S}

SeqsUpTo(S, n) == UNION {SeqsOfLen(S, k) : k \in 0..n}

PathLists == SeqsUpTo(Paths, MaxObjs)

WireEntries ==
    {[kind |-> "record", objects |-> l] : l \in PathLists}
        \cup {[kind |-> "null", objects |-> <<>>],
              [kind |-> "scalar", objects |-> <<>>]}

BytesDoc(shape) == [shape |-> shape, objs |-> <<>>, entries |-> <<>>]
ObjectDoc(l) == [shape |-> "object", objs |-> l, entries |-> <<>>]
ArrayDoc(es) == [shape |-> "array", objs |-> <<>>, entries |-> es]
Record(l) == [kind |-> "record", objects |-> l]

Docs ==
    {BytesDoc(sh) : sh \in {"empty", "malformed", "null", "scalar"}}
        \cup {ObjectDoc(l) : l \in PathLists}
        \cup {ArrayDoc(es) : es \in SeqsUpTo(WireEntries, MaxEntries)}

\* ManifestObject{Path: p}
ManifestObject(p) == [Path |-> p]

\* decoding one array element into a ManifestEntry; null leaves the zero value
DecodeEntry(e) ==
    [Objects |-> [i \in 1..Len(e.objects) |-> ManifestObject(e.objects[i])]]

\* json.Unmarshal(data, &entries) with entries of type []ManifestEntry
UnmarshalEntries(data) ==
    CASE data.shape \in {"empty", "malformed"} ->
             [err |-> TRUE, entries |-> <<>>]
      [] data.shape = "null" ->
             [err |-> FALSE, entries |-> <<>>]
      [] data.shape \in {"scalar", "object"} ->
             [err |-> TRUE, entries |-> <<>>]
      [] data.shape = "array" ->
             IF \E i \in 1..Len(data.entries) : data.entries[i].kind = "scalar"
             THEN [err |-> TRUE, entries |-> <<>>]
             ELSE [err |-> FALSE,
                   entries |-> [i \in 1..Len(data.entries) |->
                                    DecodeEntry(data.entries[i])]]

\* a loop that puts each entry's objects in front of those collected so far
RECURSIVE AppendAllReversed(_, _, _)
AppendAllReversed(allObjects, entries, i) ==
    IF i > Len(entries) THEN allObjects
    ELSE AppendAllReversed(entries[i].Objects \o allObjects, entries, i + 1)

\* the loop of parseManifest: allObjects = append(allObjects, entry.Objects...)
RECURSIVE AppendAll(_, _, _)
AppendAll(allObjects, entries, i) ==
    IF i > Len(entries) THEN allObjects
    ELSE AppendAll(allObjects \o entries[i].Objects, entries, i + 1)

\* a parser that refuses a document without any object
ParseManifestRejectsNoObjects(data) ==
    LET dec == UnmarshalEntries(data) IN
    IF dec.err \/ AppendAll(<<>>, dec.entries, 1) = <<>>
    THEN [manifest |-> Nil, err |-> TRUE]
    ELSE [manifest |-> Some(AppendAll(<<>>, dec.entries, 1)), err |-> FALSE]

\* parseManifest returns (*Manifest, error); the manifest is its Objects
parseManifest(data) ==
    LET dec == UnmarshalEntries(data) IN
    IF dec.err THEN [manifest |-> Nil, err |-> TRUE]
    ELSE [manifest |-> Some(AppendAll(<<>>, dec.entries, 1)), err |-> FALSE]

(***************************************************************************)
(* Pure functions of main.go.                                              *)
(***************************************************************************)
\* time.Time.Before
Before(t, u) == t < u

\* an evaluator that asks for an update whatever the current retention is
NeedsUpdateAlways(currentRetention, requiredUntil) == TRUE

\* an evaluator that takes a retention equal to the target as too short
NeedsUpdateNotAfter(currentRetention, requiredUntil) ==
    IF currentRetention = Nil THEN TRUE
    ELSE ~Before(requiredUntil, currentRetention[1])

needsRetentionUpdate(currentRetention, requiredUntil) ==
    IF currentRetention = Nil THEN TRUE
    ELSE Before(currentRetention[1], requiredUntil)

\* an extractor that is content with two segments
ExtractHostnamePathOfTwoParts(manifestKey) ==
    LET parts == Split(manifestKey) IN
    IF Len(parts) < 2 THEN [path |-> <<>>, err |-> TRUE]
    ELSE [path |-> parts[1] \o Slash \o parts[2] \o Slash, err |-> FALSE]

\* extractHostnamePath returns (string, error)
extractHostnamePath(manifestKey) ==
    LET parts == Split(manifestKey) IN
    IF Len(parts) < 4 THEN [path |-> <<>>, err |-> TRUE]
    ELSE [path |-> parts[1] \o Slash \o parts[2] \o Slash, err |-> FALSE]

\* a key resolution that always prepends the hostname path
ResolveAlwaysJoins(hostnamePath, path) == hostnamePath \o path

\* main.go lines 130-135
resolveObjectKey(hostnamePath, path) ==
    IF HasPrefix(path, hostnamePath) THEN path ELSE hostnamePath \o path

(***************************************************************************)
(* The object store behind the S3API interface.                            *)
(***************************************************************************)
\* what the pages of a listing hold: Contents, IsTruncated, NextContinuationToken
Page(keys, truncated, next) ==
    [keys |-> keys, truncated |-> truncated, next |-> next]

\* one page: two manifests of host 1, one of host 2, a data file, a foreign key
Listing1 == <<Page(<<M1, M2, D1, M3, X1>>, FALSE, Nil)>>
\* two pages that overlap in M1
Listing2 == <<Page(<<M1, D1>>, TRUE, Some(2)),
              Page(<<D2, M1, MS>>, FALSE, Nil)>>
\* a page that says truncated and gives no token
Listing3 == <<Page(<<M1>>, TRUE, Nil)>>
\* a last page that still carries a token to a page nobody should ask for
Listing4 == <<Page(<<M2>>, TRUE, Some(2)),
              Page(<<M2, M2>>, TRUE, Some(3)),
              Page(<<MS>>, FALSE, Some(4)),
              Page(<<M1>>, FALSE, Nil)>>
Listings == {Listing1, Listing2, Listing3, Listing4}

\* the bodies the manifest M1 may have in a run of the driver
DriverDocs ==
    {ArrayDoc(<<Record(<<RelF1, RelF2>>)>>),
     ArrayDoc(<<Record(<<AbsF1, RelF1>>), Record(<<>>)>>),
     ObjectDoc(<<RelF1>>),
     ArrayDoc(<<>>),
     ArrayDoc(<<Record(<<>>), Record(<<>>)>>)}

\* ListObjectsV2 answering with the page the token names, first page for nil;
\* the store returns only keys under the prefix
ListObjectsV2(pages, prefix, token) ==
    LET page == IF token = Nil THEN pages[1] ELSE pages[token[1]] IN
    [Contents |-> SelectSeq(page.keys, LAMBDA k : HasPrefix(k, prefix)),
     IsTruncated |-> page.truncated,
     NextContinuationToken |-> page.next]

\* error texts of the store; an error value is the code its text contains
NoError == ""

\* strings.Contains(err.Error(), code)
Contains(err, code) == err = code

\* the answers GetObjectRetention may give for a key, given the retention the
\* store holds for it (ret) and whether the key exists
GetObjectRetentionOutcomes(exists, ret) ==
    IF ~exists THEN
        {[err |-> "NoSuchKey", Retention |-> Nil],
         [err |-> "AccessDenied", Retention |-> Nil]}
    ELSE IF ret = Nil THEN
        {[err |-> "NoSuchObjectLockConfiguration", Retention |-> Nil],
         [err |-> "ObjectLockConfigurationNotFoundError", Retention |-> Nil],
         [err |-> NoError, Retention |-> Nil],
         [err |-> NoError, Retention |-> Some([RetainUntilDate |-> Nil])],
         [err |-> "AccessDenied", Retention |-> Nil]}
    ELSE
        {[err |-> NoError, Retention |-> Some([RetainUntilDate |-> ret])],
         [err |-> "AccessDenied", Retention |-> Nil]}

(***************************************************************************)
(* Store-facing functions of main.go, as functions of the store's answer.  *)
(***************************************************************************)
\* a check for which a missing object is an error like any other
CheckRetentionMissingKeyIsError(resp, requiredUntil) ==
    IF resp.err # NoError THEN
        IF \/ Contains(resp.err, "NoSuchObjectLockConfiguration")
           \/ Contains(resp.err, "ObjectLockConfigurationNotFoundError")
        THEN [needsUpdate |-> TRUE, err |-> FALSE]
        ELSE [needsUpdate |-> FALSE, err |-> TRUE]
    ELSE
        LET currentRetention ==
                IF resp.Retention # Nil
                   /\ resp.Retention[1].RetainUntilDate # Nil
                THEN resp.Retention[1].RetainUntilDate
                ELSE Nil
        IN [needsUpdate |-> needsRetentionUpdate(currentRetention, requiredUntil),
            err |-> FALSE]

\* a check for which every failed query means "set the retention"
CheckRetentionAnyErrorNeedsUpdate(resp, requiredUntil) ==
    IF resp.err # NoError THEN [needsUpdate |-> TRUE, err |-> FALSE]
    ELSE
        LET currentRetention ==
                IF resp.Retention # Nil
                   /\ resp.Retention[1].RetainUntilDate # Nil
                THEN resp.Retention[1].RetainUntilDate
                ELSE Nil
        IN [needsUpdate |-> needsRetentionUpdate(currentRetention, requiredUntil),
            err |-> FALSE]

\* checkRetention, given the answer of GetObjectRetention
checkRetention(resp, requiredUntil) ==
    IF resp.err # NoError THEN
        IF \/ Contains(resp.err, "NoSuchObjectLockConfiguration")
           \/ Contains(resp.err, "ObjectLockConfigurationNotFoundError")
           \/ Contains(resp.err, "NoSuchKey")
        THEN [needsUpdate |-> TRUE, err |-> FALSE]
        ELSE [needsUpdate |-> FALSE, err |-> TRUE]
    ELSE
        LET currentRetention ==
                IF resp.Retention # Nil
                   /\ resp.Retention[1].RetainUntilDate # Nil
                THEN resp.Retention[1].RetainUntilDate
                ELSE Nil
        IN [needsUpdate |-> needsRetentionUpdate(currentRetention, requiredUntil),
            err |-> FALSE]

\* an update that asks for the compliance mode
UpdateRetentionCompliance(key, retainUntil) ==
    [Key |-> key, Mode |-> "COMPLIANCE", RetainUntilDate |-> Some(retainUntil)]

\* an update that puts the retention on the manifest instead of the object
UpdateRetentionOnManifest(key, retainUntil) ==
    [Key |-> M1, Mode |-> "GOVERNANCE", RetainUntilDate |-> Some(retainUntil)]

\* the PutObjectRetentionInput that updateRetention sends
updateRetention(key, retainUntil) ==
    [Key |-> key, Mode |-> "GOVERNANCE", RetainUntilDate |-> Some(retainUntil)]

\* a collector without the suffix test
CollectAllKeys(backupPaths, contents) ==
    backupPaths \cup {contents[i] : i \in 1..Len(contents)}

\* the suffix test and the set insert of findManifests, over one page
CollectManifests(backupPaths, contents) ==
    backupPaths \cup
        {contents[i] : i \in {j \in 1..Len(contents) :
                                  HasSuffix(contents[j], ManifestSuffix)}}

\* the orders in which ranging over the map backupPaths can append its keys
RECURSIVE RangeOrders(_)
RangeOrders(S) ==
    IF S = {} THEN {<<>>}
    ELSE UNION {{<<x>> \o s : s \in RangeOrders(S \ {x})} : x \in S}

\* a failed page that still hands back what the earlier pages gave
ListErrorReturnPartial(collected) ==
    [manifests |-> CHOOSE order \in RangeOrders(collected) : TRUE, pc |-> "fatal"]

\* a failed page taken for the end of the listing
ListErrorBreak(collected) ==
    [manifests |-> CHOOSE order \in RangeOrders(collected) : TRUE, pc |-> "manifest"]

\* findManifests when a ListObjectsV2 call fails: (nil, err), and main exits
ListErrorReturn(collected) ==
    [manifests |-> <<>>, pc |-> "fatal"]

\* a listing request that never carries the token
ListInputWithoutToken(prefix, token) ==
    [Prefix |-> prefix, ContinuationToken |-> Nil]

\* the ListObjectsV2Input of findManifests (lines 173-177)
ListObjectsV2Input(prefix, token) ==
    [Prefix |-> prefix, ContinuationToken |-> token]

\* the lines the object loop logs: the object key and, where the format
\* prints it, the target (lines 139, 145, 149, 151)
CheckErrorLog(objectKey) ==
    [line |-> "Error checking retention", key |-> objectKey, until |-> Nil]
DryRunLog(objectKey, retentionUntil) ==
    [line |-> "[DRY-RUN] Would update retention", key |-> objectKey, until |-> Nil]
UpdateErrorLog(objectKey) ==
    [line |-> "Error updating retention", key |-> objectKey, until |-> Nil]
UpdatedLog(objectKey, retentionUntil) ==
    [line |-> "Updated retention", key |-> objectKey,
     until |-> Some(retentionUntil)]

\* an update decision that forgets the dry-run flag
IssuesUpdateIgnoringDryRun(needs, dry) == needs

\* an update decision that forgets what checkRetention answered
IssuesUpdateAlways(needs, dry) == ~dry

\* if needsUpdate { if *dryRun { log } else { updateRetention } }
IssuesUpdate(needs, dry) == needs /\ ~dry

(***************************************************************************)
(* State.                                                                  *)
(***************************************************************************)
VARIABLES
    \* the bucket: retention of each existing key, manifest bodies, listing
    \* pages, and the calls (operation and key) that the store always refuses
    \* when its answers depend on nothing but the key and its state
    retention, bodies, listing, denied,
    \* flags and the target computed at main.go line 108
    cluster, dryRun, retentionUntil,
    \* where main is: "list", "manifest", "object", "update", "done", "fatal"
    pc,
    \* locals of findManifests and its result
    continuationToken, backupPaths, manifests,
    \* locals of main's loops: index of the manifest, its key, its Objects,
    \* its hostname path, index of the object, its key
    mi, manifestKey, objects, hostnamePath, oi, objectKey,
    \* the last answer of GetObjectRetention and what checkRetention made of it
    resp, needsUpdate,
    \* observation of the current pass: its number, the store calls it issued,
    \* the retention at its start, whether every call succeeded so far, the keys
    \* its listing pages returned, the last PutObjectRetentionInput
    pass, nGet, nQuery, nPut, retention0, clean, listErr, seen, lastPut,
    \* how the last manifest came out of the head of the manifest loop ("ok",
    \* "fetch", "decode", "path"; "none" before the first), and the number of
    \* objects the manifests that came out "ok" referenced so far
    status, nRefs,
    \* the line the last step of the object loop logged (NoLog if none), the
    \* input of the last ListObjectsV2 call and the number of such calls
    logged, listInput, nList,
    \* observation of the pass before it: whether it reached Done, whether every
    \* store call of it succeeded, its dry-run flag
    prev,
    \* a pure function applied to drawn inputs: the call and what it returned
    call, ret,
    \* the object visits of one pass handed to workers: the resolved keys to
    \* visit, the index of the next one, and for each worker whether it is
    \* about to take a key or to update the key it holds
    jobs, nextJob, wpc, wkey,
    \* two runs of the program at the same time on one bucket: the target each
    \* computed at line 108 and the index of the next key of its object loops
    runUntil, runJob

storeVars == <<retention, bodies, listing, denied>>
flagVars == <<cluster, dryRun, retentionUntil>>
findVars == <<continuationToken, backupPaths, manifests>>
loopVars == <<mi, manifestKey, objects, hostnamePath, oi, objectKey>>
checkVars == <<resp, needsUpdate>>
passVars == <<pass, retention0, prev>>
pureVars == <<call, ret>>
workVars == <<jobs, nextJob, wpc, wkey, runUntil, runJob>>
headVars == <<status, nRefs>>
traceVars == <<logged, listInput, nList>>
vars == <<storeVars, flagVars, pc, findVars, loopVars, checkVars,
          nGet, nQuery, nPut, clean, listErr, seen, lastPut, headVars,
          traceVars, passVars, pureVars, workVars>>
driverVars == <<storeVars, flagVars, pc, findVars, loopVars, checkVars,
                nGet, nQuery, nPut, clean, listErr, seen, lastPut, headVars,
                traceVars, passVars>>

NoResp == [err |-> NoError, Retention |-> Nil]
NoPut == [Key |-> <<>>, Mode |-> "", RetainUntilDate |-> Nil]
NoLog == [line |-> "", key |-> <<>>, until |-> Nil]
NoList == [Prefix |-> <<>>, ContinuationToken |-> Nil]
NoCall ==
    [fn |-> "none", data |-> BytesDoc("empty"), current |-> Nil, required |-> 0,
     key |-> <<>>, path |-> <<>>, until |-> 0]
NoPass == [done |-> FALSE, clean |-> FALSE, dryRun |-> FALSE]
NoRet ==
    [done |-> FALSE, manifest |-> Nil, err |-> FALSE, needs |-> FALSE,
     path |-> <<>>, retention |-> Nil]

ManifestKeys == {M1, M2, M3, MS, X1}

Workers == {1, 2}

\* no worker has anything to do
IdleWorkers ==
    /\ jobs = <<>> /\ nextJob = 1
    /\ wpc = [w \in Workers |-> "take"]
    /\ wkey = [w \in Workers |-> <<>>]
    /\ runUntil = [w \in Workers |-> 0]
    /\ runJob = [w \in Workers |-> 1]

\* no store call is refused for good, and no worker has anything to do
NoWork == denied = {} /\ IdleWorkers

\* the state in which main enters findManifests
EnterMain ==
    /\ pc = "list"
    /\ continuationToken = Nil
    /\ backupPaths = {}
    /\ manifests = <<>>
    /\ mi = 1 /\ manifestKey = <<>> /\ objects = <<>>
    /\ hostnamePath = <<>> /\ oi = 1 /\ objectKey = <<>>
    /\ resp = NoResp /\ needsUpdate = FALSE
    /\ nGet = 0 /\ nQuery = 0 /\ nPut = 0
    /\ clean = TRUE /\ listErr = FALSE /\ seen = {} /\ lastPut = NoPut
    /\ status = "none" /\ nRefs = 0
    /\ logged = NoLog /\ listInput = NoList /\ nList = 0

Init ==
    /\ retention \in {r \in [StoreKeys -> OptTime] :
                          \A k \in StoreKeys \ DataKeys : r[k] = Nil}
    /\ \E d1 \in DriverDocs :
           bodies = [k \in ManifestKeys |->
                        IF k = M1 THEN d1
                        ELSE IF k = M2
                        THEN ArrayDoc(<<Record(<<AbsF1>>), Record(<<RelF9>>)>>)
                        ELSE ArrayDoc(<<Record(<<RelF1>>)>>)]
    /\ listing \in Listings
    /\ cluster = <<"c">>
    /\ dryRun \in BOOLEAN
    /\ retentionUntil \in Targets
    /\ EnterMain
    /\ pass = 1
    /\ retention0 = retention
    /\ prev = NoPass
    /\ call = NoCall /\ ret = NoRet
    /\ NoWork

(***************************************************************************)
(* One iteration of the listing loop of findManifests (lines 172-194); the *)
(* last one also builds the result (lines 196-200) and returns to main.    *)
(***************************************************************************)
ListObjects ==
    /\ pc = "list"
    /\ nList < MaxListCalls
    /\ nList' = nList + 1
    /\ listInput' = ListObjectsV2Input(cluster \o Slash, continuationToken)
    /\ \E ok \in BOOLEAN :
         IF ~ok
         THEN LET r == ListErrorReturn(backupPaths) IN
              /\ manifests' = r.manifests
              /\ pc' = r.pc
              /\ clean' = FALSE
              /\ listErr' = TRUE
              /\ UNCHANGED <<continuationToken, backupPaths, seen>>
         ELSE LET out == ListObjectsV2(listing, listInput'.Prefix,
                                       listInput'.ContinuationToken)
                  paths == CollectManifests(backupPaths, out.Contents)
              IN
              /\ backupPaths' = paths
              /\ seen' = seen \cup {out.Contents[i] : i \in 1..Len(out.Contents)}
              /\ UNCHANGED <<clean, listErr>>
              /\ IF ~out.IsTruncated
                 THEN /\ manifests' \in RangeOrders(paths)
                      /\ pc' = "manifest"
                      /\ UNCHANGED continuationToken
                 ELSE /\ continuationToken' = out.NextContinuationToken
                      /\ pc' = "list"
                      /\ UNCHANGED manifests
    /\ UNCHANGED <<storeVars, flagVars, loopVars, checkVars, nGet, nQuery, nPut,
                   lastPut, headVars, logged, passVars, pureVars, workVars>>

\* a failed manifest that ends the manifest loop
SkipManifestBreak ==
    /\ mi' = Len(manifests) + 1
    /\ pc' = "manifest"
    /\ UNCHANGED oi

\* "continue" of the manifest loop (lines 116 and 124): the next manifest
SkipManifest ==
    /\ mi' = mi + 1
    /\ pc' = "manifest"
    /\ UNCHANGED oi

(***************************************************************************)
(* The head of the manifest loop (lines 110-125): downloadManifest, which  *)
(* is GetObject and parseManifest, then extractHostnamePath.  A manifest   *)
(* with no Objects leaves the object loop at once.                         *)
(***************************************************************************)
DownloadManifest ==
    /\ pc = "manifest"
    /\ mi <= Len(manifests)
    /\ manifestKey' = manifests[mi]
    /\ nGet' = nGet + 1
    /\ \E ok \in BOOLEAN :
         LET got == ok /\ manifests[mi] \in DOMAIN bodies
             parsed == parseManifest(bodies[manifests[mi]])
             host == extractHostnamePath(manifests[mi])
             outcome == IF ~got THEN "fetch"
                        ELSE IF parsed.err THEN "decode"
                        ELSE IF host.err THEN "path"
                        ELSE "ok"
             objs == IF got /\ ~parsed.err THEN parsed.manifest[1] ELSE <<>>
         IN
         /\ clean' = (clean /\ got)
         /\ status' = outcome
         /\ objects' = objs
         /\ hostnamePath' = IF outcome = "ok" THEN host.path ELSE <<>>
         /\ nRefs' = IF outcome = "ok" THEN nRefs + Len(objs) ELSE nRefs
         /\ IF outcome # "ok"
            THEN SkipManifest
            ELSE IF Len(objs) > 0
            THEN /\ oi' = 1
                 /\ pc' = "object"
                 /\ UNCHANGED mi
            ELSE /\ mi' = mi + 1
                 /\ pc' = "manifest"
                 /\ UNCHANGED oi
    /\ UNCHANGED <<storeVars, flagVars, findVars, objectKey, checkVars,
                   nQuery, nPut, listErr, seen, lastPut, traceVars, passVars,
                   pureVars, workVars>>

\* an object loop that visits the same object again when its update failed
NextObjectRetryFailedUpdate ==
    IF pc = "update" /\ retention' = retention
    THEN /\ pc' = "object"
         /\ UNCHANGED <<mi, oi>>
    ELSE IF oi < Len(objects)
    THEN /\ oi' = oi + 1
         /\ pc' = "object"
         /\ UNCHANGED mi
    ELSE /\ mi' = mi + 1
         /\ pc' = "manifest"
         /\ UNCHANGED oi

\* an object loop that a failed query ends ("break" for "continue")
NextObjectBreakOnError ==
    IF oi < Len(objects) /\ ~(pc = "object" /\ resp'.err = "AccessDenied")
    THEN /\ oi' = oi + 1
         /\ pc' = "object"
         /\ UNCHANGED mi
    ELSE /\ mi' = mi + 1
         /\ pc' = "manifest"
         /\ UNCHANGED oi

\* the end of one object's visit: the next object, or the next manifest
NextObject ==
    IF oi < Len(objects)
    THEN /\ oi' = oi + 1
         /\ pc' = "object"
         /\ UNCHANGED mi
    ELSE /\ mi' = mi + 1
         /\ pc' = "manifest"
         /\ UNCHANGED oi

(***************************************************************************)
(* The head of the object loop (lines 127-146): the key is resolved, the   *)
(* retention queried, and in dry-run mode the intended update is logged.   *)
(***************************************************************************)
CheckRetention ==
    /\ pc = "object"
    /\ LET key == resolveObjectKey(hostnamePath, objects[oi].Path) IN
       /\ objectKey' = key
       /\ nQuery' = nQuery + 1
       /\ \E answer \in GetObjectRetentionOutcomes(
                            key \in StoreKeys,
                            IF key \in StoreKeys THEN retention[key] ELSE Nil) :
            LET res == checkRetention(answer, retentionUntil) IN
            /\ resp' = answer
            /\ needsUpdate' = res.needsUpdate
            /\ clean' = (clean /\ answer.err \notin {"NoSuchKey", "AccessDenied"})
            /\ logged' = IF res.err THEN CheckErrorLog(key)
                         ELSE IF res.needsUpdate /\ dryRun
                         THEN DryRunLog(key, retentionUntil)
                         ELSE NoLog
            /\ IF ~res.err /\ IssuesUpdate(res.needsUpdate, dryRun)
               THEN /\ pc' = "update"
                    /\ UNCHANGED <<mi, oi>>
               ELSE NextObject
    /\ UNCHANGED <<storeVars, flagVars, findVars, manifestKey, objects,
                   hostnamePath, nGet, nPut, listErr, seen, lastPut, headVars,
                   listInput, nList, passVars, pureVars, workVars>>

(***************************************************************************)
(* updateRetention for the object just checked (lines 147-152).  The store *)
(* applies the requested date when it accepts the call.                    *)
(***************************************************************************)
UpdateRetention ==
    /\ pc = "update"
    /\ LET input == updateRetention(objectKey, retentionUntil) IN
       /\ lastPut' = input
       /\ nPut' = nPut + 1
       /\ \E ok \in BOOLEAN :
            LET done == ok /\ input.Key \in StoreKeys IN
            /\ retention' = IF done
                            THEN [retention EXCEPT ![input.Key] = input.RetainUntilDate]
                            ELSE retention
            /\ clean' = (clean /\ done)
            /\ logged' = IF done THEN UpdatedLog(objectKey, retentionUntil)
                         ELSE UpdateErrorLog(objectKey)
    /\ NextObject
    /\ UNCHANGED <<bodies, listing, denied, flagVars, findVars, manifestKey,
                   objects,
                   hostnamePath, objectKey, checkVars, nGet, nQuery, listErr,
                   seen, headVars, listInput, nList, passVars, pureVars, workVars>>

\* the manifest loop is over: log "Done" (line 158)
Finish ==
    /\ pc = "manifest"
    /\ mi > Len(manifests)
    /\ pc' = "done"
    /\ UNCHANGED <<storeVars, flagVars, findVars, loopVars, checkVars,
                   nGet, nQuery, nPut, clean, listErr, seen, lastPut, headVars,
                   traceVars, passVars, pureVars, workVars>>

\* the program is run again on the same bucket with the same target
StartPass ==
    /\ pc \in {"done", "fatal"}
    /\ pass < MaxPasses
    /\ pass' = pass + 1
    /\ prev' = [done |-> pc = "done", clean |-> clean, dryRun |-> dryRun]
    /\ dryRun' \in BOOLEAN
    /\ retention0' = retention
    /\ pc' = "list"
    /\ continuationToken' = Nil
    /\ backupPaths' = {}
    /\ manifests' = <<>>
    /\ mi' = 1 /\ manifestKey' = <<>> /\ objects' = <<>>
    /\ hostnamePath' = <<>> /\ oi' = 1 /\ objectKey' = <<>>
    /\ resp' = NoResp /\ needsUpdate' = FALSE
    /\ nGet' = 0 /\ nQuery' = 0 /\ nPut' = 0
    /\ clean' = TRUE /\ listErr' = FALSE /\ seen' = {} /\ lastPut' = NoPut
    /\ status' = "none" /\ nRefs' = 0
    /\ logged' = NoLog /\ listInput' = NoList /\ nList' = 0
    /\ UNCHANGED <<storeVars, cluster, retentionUntil, pureVars, workVars>>

Next ==
    \/ ListObjects
    \/ DownloadManifest
    \/ CheckRetention
    \/ UpdateRetention
    \/ Finish
    \/ StartPass

Spec == Init /\ [][Next]_vars

(***************************************************************************)
(* One run of the program, for cluster names with and without separators.  *)
(***************************************************************************)
\* a cluster name that contains two separators, a manifest under it, and a
\* bucket whose listing holds that manifest
DeepCluster == <<"c", "/", "d", "/", "e">>
N1 == DeepCluster \o <<"/", "h1", "/", "b1">> \o ManifestSuffix
Listing5 == <<Page(<<N1, M1>>, FALSE, Nil)>>
Clusters == {<<"c">>, DeepCluster}

InitOne ==
    /\ retention \in {r \in [StoreKeys -> OptTime] :
                          \A k \in StoreKeys \ DataKeys : r[k] = Nil}
    /\ \E d1 \in DriverDocs :
           bodies = [k \in ManifestKeys \cup {N1} |->
                        IF k = M1 THEN d1
                        ELSE IF k = M2
                        THEN ArrayDoc(<<Record(<<AbsF1>>), Record(<<RelF9>>)>>)
                        ELSE ArrayDoc(<<Record(<<RelF1>>)>>)]
    /\ listing \in Listings \cup {Listing5}
    /\ cluster \in Clusters
    /\ dryRun \in BOOLEAN
    /\ retentionUntil \in Targets
    /\ EnterMain
    /\ pass = 1
    /\ retention0 = retention
    /\ prev = NoPass
    /\ call = NoCall /\ ret = NoRet
    /\ NoWork

NextOne ==
    \/ ListObjects
    \/ DownloadManifest
    \/ CheckRetention
    \/ UpdateRetention
    \/ Finish

SpecOne == InitOne /\ [][NextOne]_vars

(***************************************************************************)
(* One run against a store whose answers depend only on the key and its    *)
(* state: a call is refused every time or never, the listing never fails.  *)
(***************************************************************************)
\* the calls that a bucket policy may refuse
DeniedCalls ==
    {<<"GetObject", M1>>, <<"GetObjectRetention", D1>>,
     <<"PutObjectRetention", D2>>}

Refused(op, key) == <<op, key>> \in denied

InitSteady ==
    /\ retention \in {r \in [StoreKeys -> OptTime] :
                          \A k \in StoreKeys \ DataKeys : r[k] = Nil}
    /\ \E d1 \in DriverDocs :
           bodies = [k \in ManifestKeys |->
                        IF k = M1 THEN d1
                        ELSE IF k = M2
                        THEN ArrayDoc(<<Record(<<AbsF1>>), Record(<<RelF9>>)>>)
                        ELSE ArrayDoc(<<Record(<<RelF1>>)>>)]
    /\ listing \in Listings
    /\ denied \in SUBSET DeniedCalls
    /\ cluster = <<"c">>
    /\ dryRun \in BOOLEAN
    /\ retentionUntil \in Targets
    /\ EnterMain
    /\ pass = 1
    /\ retention0 = retention
    /\ prev = NoPass
    /\ call = NoCall /\ ret = NoRet
    /\ IdleWorkers

ListObjectsSteady ==
    /\ ListObjects
    /\ ~listErr'

DownloadManifestSteady ==
    /\ DownloadManifest
    /\ status' = "fetch" <=> Refused("GetObject", manifestKey')

CheckRetentionSteady ==
    /\ CheckRetention
    /\ resp'.err = "AccessDenied" <=> Refused("GetObjectRetention", objectKey')

UpdateRetentionSteady ==
    /\ UpdateRetention
    /\ logged'.line = "Error updating retention"
           <=> (objectKey \notin StoreKeys
                \/ Refused("PutObjectRetention", objectKey))

NextSteady ==
    \/ ListObjectsSteady
    \/ DownloadManifestSteady
    \/ CheckRetentionSteady
    \/ UpdateRetentionSteady
    \/ Finish

SpecSteady == InitSteady /\ [][NextSteady]_vars

(***************************************************************************)
(* The object visits of one pass (lines 127-155) run by two workers that   *)
(* share the bucket and nothing else: each takes the next key, checks its  *)
(* retention and, in a later step, updates it.                             *)
(***************************************************************************)
\* the keys of the object loop of one manifest, in the order of its Objects
JobsOf(m, doc) ==
    LET parsed == parseManifest(doc)
        host == extractHostnamePath(m)
    IN IF parsed.err \/ host.err THEN <<>>
       ELSE [i \in 1..Len(parsed.manifest[1]) |->
                resolveObjectKey(host.path, parsed.manifest[1][i].Path)]

InitWorkers ==
    /\ retention \in {r \in [StoreKeys -> OptTime] :
                          \A k \in StoreKeys \ DataKeys : r[k] = Nil}
    /\ \E d1 \in DriverDocs :
           bodies = [k \in ManifestKeys |->
                        IF k = M1 THEN d1
                        ELSE IF k = M2
                        THEN ArrayDoc(<<Record(<<AbsF1>>), Record(<<RelF9>>)>>)
                        ELSE ArrayDoc(<<Record(<<RelF1>>)>>)]
    /\ listing = Listing1
    /\ denied \in SUBSET DeniedCalls
    /\ cluster = <<"c">>
    /\ dryRun \in BOOLEAN
    /\ retentionUntil \in Targets
    /\ pc = "workers"
    /\ continuationToken = Nil
    /\ backupPaths = {M1, M2}
    /\ manifests = <<M1, M2>>
    /\ mi = 1 /\ manifestKey = <<>> /\ objects = <<>>
    /\ hostnamePath = <<>> /\ oi = 1 /\ objectKey = <<>>
    /\ resp = NoResp /\ needsUpdate = FALSE
    /\ nGet = 0 /\ nQuery = 0 /\ nPut = 0
    /\ clean = TRUE /\ listErr = FALSE /\ seen = {} /\ lastPut = NoPut
    /\ status = "none" /\ nRefs = 0
    /\ logged = NoLog /\ listInput = NoList /\ nList = 0
    /\ pass = 1
    /\ retention0 = retention
    /\ prev = NoPass
    /\ call = NoCall /\ ret = NoRet
    /\ jobs = JobsOf(M1, bodies[M1]) \o JobsOf(M2, bodies[M2])
    /\ nextJob = 1
    /\ wpc = [w \in Workers |-> "take"]
    /\ wkey = [w \in Workers |-> <<>>]
    /\ runUntil = [w \in Workers |-> 0]
    /\ runJob = [w \in Workers |-> 1]

\* checkRetention by worker w for the next key (lines 137-146)
WorkerCheck(w) ==
    /\ pc = "workers"
    /\ wpc[w] = "take"
    /\ nextJob <= Len(jobs)
    /\ nextJob' = nextJob + 1
    /\ LET key == jobs[nextJob] IN
       \E answer \in GetObjectRetentionOutcomes(
                         key \in StoreKeys,
                         IF key \in StoreKeys THEN retention[key] ELSE Nil) :
         /\ answer.err = "AccessDenied" <=> Refused("GetObjectRetention", key)
         /\ LET res == checkRetention(answer, retentionUntil) IN
            IF ~res.err /\ IssuesUpdate(res.needsUpdate, dryRun)
            THEN /\ wpc' = [wpc EXCEPT ![w] = "update"]
                 /\ wkey' = [wkey EXCEPT ![w] = key]
            ELSE UNCHANGED <<wpc, wkey>>
    /\ UNCHANGED <<driverVars, pureVars, jobs, runUntil, runJob>>

\* updateRetention by worker w for the key it checked (lines 147-152)
WorkerUpdate(w) ==
    /\ pc = "workers"
    /\ wpc[w] = "update"
    /\ LET input == updateRetention(wkey[w], retentionUntil)
           done == /\ input.Key \in StoreKeys
                   /\ ~Refused("PutObjectRetention", input.Key)
       IN retention' = IF done
                       THEN [retention EXCEPT ![input.Key] = input.RetainUntilDate]
                       ELSE retention
    /\ wpc' = [wpc EXCEPT ![w] = "take"]
    /\ UNCHANGED <<bodies, listing, denied, flagVars, pc, findVars, loopVars,
                   checkVars, nGet, nQuery, nPut, clean, listErr, seen, lastPut,
                   headVars, traceVars, passVars, pureVars, jobs, nextJob, wkey,
                   runUntil, runJob>>

NextWorkers ==
    \/ \E w \in Workers : WorkerCheck(w)
    \/ \E w \in Workers : WorkerUpdate(w)

SpecWorkers == InitWorkers /\ [][NextWorkers]_vars

\* the same visits made one after the other by the object loop of main,
\* from visit i on, on a bucket whose retentions are r
RECURSIVE SequentialPass(_, _)
SequentialPass(r, i) ==
    IF i > Len(jobs) THEN r
    ELSE LET key == jobs[i]
             answer == CHOOSE a \in GetObjectRetentionOutcomes(
                                        key \in StoreKeys,
                                        IF key \in StoreKeys THEN r[key] ELSE Nil) :
                           a.err = "AccessDenied"
                               <=> Refused("GetObjectRetention", key)
             res == checkRetention(answer, retentionUntil)
             input == updateRetention(key, retentionUntil)
             done == /\ ~res.err /\ IssuesUpdate(res.needsUpdate, dryRun)
                     /\ input.Key \in StoreKeys
                     /\ ~Refused("PutObjectRetention", input.Key)
         IN SequentialPass(IF done
                           THEN [r EXCEPT ![input.Key] = input.RetainUntilDate]
                           ELSE r,
                           i + 1)

(***************************************************************************)
(* Two runs of the program at the same time on one bucket (a scheduled run *)
(* that starts before the one before it has ended, or one started by hand):*)
(* each has its own target and makes the object visits of lines 127-155    *)
(* for every manifest, in its own order of steps.  The bucket answers each *)
(* call as a whole; a PutObjectRetention sets what it is given.            *)
(***************************************************************************)
\* the targets of two runs: now + retentionDays, for different starts or days
RunTargets == 1..MaxTime

InitRuns ==
    /\ retention \in {r \in [StoreKeys -> OptTime] :
                          \A k \in StoreKeys \ DataKeys : r[k] = Nil}
    /\ \E d1 \in DriverDocs :
           bodies = [k \in ManifestKeys |->
                        IF k = M1 THEN d1
                        ELSE IF k = M2
                        THEN ArrayDoc(<<Record(<<AbsF1>>), Record(<<RelF9>>)>>)
                        ELSE ArrayDoc(<<Record(<<RelF1>>)>>)]
    /\ listing = Listing1
    /\ denied \in SUBSET DeniedCalls
    /\ cluster = <<"c">>
    /\ dryRun \in BOOLEAN
    /\ retentionUntil \in Targets
    /\ pc = "runs"
    /\ continuationToken = Nil
    /\ backupPaths = {M1, M2}
    /\ manifests = <<M1, M2>>
    /\ mi = 1 /\ manifestKey = <<>> /\ objects = <<>>
    /\ hostnamePath = <<>> /\ oi = 1 /\ objectKey = <<>>
    /\ resp = NoResp /\ needsUpdate = FALSE
    /\ nGet = 0 /\ nQuery = 0 /\ nPut = 0
    /\ clean = TRUE /\ listErr = FALSE /\ seen = {} /\ lastPut = NoPut
    /\ status = "none" /\ nRefs = 0
    /\ logged = NoLog /\ listInput = NoList /\ nList = 0
    /\ pass = 1
    /\ retention0 = retention
    /\ prev = NoPass
    /\ call = NoCall /\ ret = NoRet
    /\ jobs = JobsOf(M1, bodies[M1]) \o JobsOf(M2, bodies[M2])
    /\ nextJob = 1
    /\ wpc = [w \in Workers |-> "take"]
    /\ wkey = [w \in Workers |-> <<>>]
    /\ runUntil \in [Workers -> RunTargets]
    /\ runJob = [w \in Workers |-> 1]

\* checkRetention by run w for the next key of its object loop (lines 137-146)
RunCheck(w) ==
    /\ pc = "runs"
    /\ wpc[w] = "take"
    /\ runJob[w] <= Len(jobs)
    /\ runJob' = [runJob EXCEPT ![w] = runJob[w] + 1]
    /\ LET key == jobs[runJob[w]] IN
       \E answer \in GetObjectRetentionOutcomes(
                         key \in StoreKeys,
                         IF key \in StoreKeys THEN retention[key] ELSE Nil) :
         /\ answer.err = "AccessDenied" <=> Refused("GetObjectRetention", key)
         /\ LET res == checkRetention(answer, runUntil[w]) IN
            IF ~res.err /\ IssuesUpdate(res.needsUpdate, dryRun)
            THEN /\ wpc' = [wpc EXCEPT ![w] = "update"]
                 /\ wkey' = [wkey EXCEPT ![w] = key]
            ELSE UNCHANGED <<wpc, wkey>>
    /\ UNCHANGED <<driverVars, pureVars, jobs, nextJob, runUntil>>

\* updateRetention by run w for the key it checked (lines 147-152)
RunUpdate(w) ==
    /\ pc = "runs"
    /\ wpc[w] = "update"
    /\ LET input == updateRetention(wkey[w], runUntil[w])
           done == /\ input.Key \in StoreKeys
                   /\ ~Refused("PutObjectRetention", input.Key)
       IN retention' = IF done
                       THEN [retention EXCEPT ![input.Key] = input.RetainUntilDate]
                       ELSE retention
    /\ wpc' = [wpc EXCEPT ![w] = "take"]
    /\ UNCHANGED <<bodies, listing, denied, flagVars, pc, findVars, loopVars,
                   checkVars, nGet, nQuery, nPut, clean, listErr, seen, lastPut,
                   headVars, traceVars, passVars, pureVars, jobs, nextJob, wkey,
                   runUntil, runJob>>

NextRuns ==
    \/ \E w \in Workers : RunCheck(w)
    \/ \E w \in Workers : RunUpdate(w)

SpecRuns == InitRuns /\ [][NextRuns]_vars

(***************************************************************************)
(* The pure functions applied to drawn inputs.                             *)
(***************************************************************************)
ParseCall(d) == [NoCall EXCEPT !.fn = "parseManifest", !.data = d]
NeedsCall(c, r) ==
    [NoCall EXCEPT !.fn = "needsRetentionUpdate", !.current = c, !.required = r]
HostCall(k) == [NoCall EXCEPT !.fn = "extractHostnamePath", !.key = k]
ResolveCall(k, p) == [NoCall EXCEPT !.fn = "resolveObjectKey", !.key = k, !.path = p]

\* the two-threshold configuration: the current retention of an object, the
\* timestamps now + min-retention days and now + max-retention days
TwoThresholdCall(c, minUntil, maxUntil) ==
    [NoCall EXCEPT !.fn = "twoThreshold", !.current = c,
                   !.required = minUntil, !.until = maxUntil]

\* manifest keys given to extractHostnamePath: every string of at most
\* MaxKeyLen symbols over the separator and one name symbol
HostKeys == SeqsUpTo({"/", "a"}, MaxKeyLen)

\* manifest keys of the pattern cluster/host/backup/meta/manifest.json
PatternKeys == {M1, M2, M3, X1}

\* referenced paths: relative ones (old format) and the same under the
\* hostname path of each pattern key (new format)
RelPaths == {RelF1, RelF2, RelF9}
RefPaths ==
    RelPaths \cup {SubSeq(k, 1, 4) \o p : k \in PatternKeys, p \in RelPaths}

PureCalls ==
    {ParseCall(d) : d \in Docs}
        \cup {NeedsCall(c, r) : c \in OptTime, r \in Times}
        \cup {HostCall(k) : k \in HostKeys}
        \cup {ResolveCall(k, p) : k \in PatternKeys, p \in RefPaths}
        \cup {TwoThresholdCall(c, lo, hi) :
                  c \in OptTime, lo \in Times, hi \in Times}

InitPure ==
    /\ retention = [k \in StoreKeys |-> Nil]
    /\ bodies = [k \in ManifestKeys |-> BytesDoc("empty")]
    /\ listing = Listing1
    /\ cluster = <<"c">>
    /\ dryRun = FALSE
    /\ retentionUntil = 1
    /\ pc = "pure"
    /\ continuationToken = Nil
    /\ backupPaths = {}
    /\ manifests = <<>>
    /\ mi = 1 /\ manifestKey = <<>> /\ objects = <<>>
    /\ hostnamePath = <<>> /\ oi = 1 /\ objectKey = <<>>
    /\ resp = NoResp /\ needsUpdate = FALSE
    /\ nGet = 0 /\ nQuery = 0 /\ nPut = 0
    /\ clean = TRUE /\ listErr = FALSE /\ seen = {} /\ lastPut = NoPut
    /\ status = "none" /\ nRefs = 0
    /\ logged = NoLog /\ listInput = NoList /\ nList = 0
    /\ pass = 1
    /\ retention0 = retention
    /\ prev = NoPass
    /\ call \in PureCalls
    /\ ret = NoRet
    /\ NoWork

ApplyParseManifest ==
    /\ call.fn = "parseManifest"
    /\ ~ret.done
    /\ LET r == parseManifest(call.data) IN
       ret' = [NoRet EXCEPT !.done = TRUE, !.manifest = r.manifest, !.err = r.err]
    /\ UNCHANGED <<driverVars, workVars, call>>

ApplyNeedsRetentionUpdate ==
    /\ call.fn = "needsRetentionUpdate"
    /\ ~ret.done
    /\ ret' = [NoRet EXCEPT !.done = TRUE,
                            !.needs = needsRetentionUpdate(call.current,
                                                           call.required)]
    /\ UNCHANGED <<driverVars, workVars, call>>

ApplyExtractHostnamePath ==
    /\ call.fn = "extractHostnamePath"
    /\ ~ret.done
    /\ LET r == extractHostnamePath(call.key) IN
       ret' = [NoRet EXCEPT !.done = TRUE, !.path = r.path, !.err = r.err]
    /\ UNCHANGED <<driverVars, workVars, call>>

\* lines 121-135 for one manifest key and one referenced path
ApplyResolveObjectKey ==
    /\ call.fn = "resolveObjectKey"
    /\ ~ret.done
    /\ LET host == extractHostnamePath(call.key) IN
       ret' = [NoRet EXCEPT !.done = TRUE, !.err = host.err,
                            !.path = IF host.err THEN <<>>
                                     ELSE resolveObjectKey(host.path, call.path)]
    /\ UNCHANGED <<driverVars, workVars, call>>

\* the visit of one object under -min-retention and -max-retention: the
\* evaluator is asked about the lower threshold, the update carries the upper
TwoThresholdVisit(current, minUntil, maxUntil) ==
    IF needsRetentionUpdate(current, minUntil)
    THEN [updated |-> TRUE,
          retention |-> updateRetention(<<>>, maxUntil).RetainUntilDate]
    ELSE [updated |-> FALSE, retention |-> current]

ApplyTwoThreshold ==
    /\ call.fn = "twoThreshold"
    /\ ~ret.done
    /\ LET r == TwoThresholdVisit(call.current, call.required, call.until) IN
       ret' = [NoRet EXCEPT !.done = TRUE, !.needs = r.updated,
                            !.retention = r.retention]
    /\ UNCHANGED <<driverVars, workVars, call>>

NextPure ==
    \/ ApplyParseManifest
    \/ ApplyNeedsRetentionUpdate
    \/ ApplyExtractHostnamePath
    \/ ApplyResolveObjectKey
    \/ ApplyTwoThreshold

SpecPure == InitPure /\ [][NextPure]_vars

(***************************************************************************)
(* Properties.                                                             *)
(***************************************************************************)
\* order of protection expiries: no retention is below every retention
ExpiryLeq(a, b) == a = Nil \/ (b # Nil /\ a[1] <= b[1])

Discovered == pc \in {"manifest", "object", "update", "done"}

\* the paths of a manifest's Objects, in order
PathsOf(objs) == [i \in 1..Len(objs) |-> objs[i].Path]

\* C1: with a fixed target, no step of any pass lowers the protection expiry
\* of any object, and every PutObjectRetention a pass issues asks for an
\* expiry that is not earlier than the one the object held when the pass began.
C1_ExpiryNeverDecreases ==
    [][/\ \A k \in StoreKeys : ExpiryLeq(retention[k], retention'[k])
       /\ (nPut' > nPut /\ lastPut'.Key \in StoreKeys)
              => ExpiryLeq(retention0[lastPut'.Key], lastPut'.RetainUntilDate)]_vars

\* C1 witness: in a second pass an update has raised a retention that was set
C1_Witness ==
    /\ pass = 2 /\ nPut > 0
    /\ \E k \in DataKeys :
         /\ retention0[k] # Nil
         /\ retention[k] = Some(retentionUntil)
         /\ retention0[k][1] < retentionUntil

C3_DryRunIssuesNoUpdate ==
    dryRun => (nPut = 0 /\ pc # "update" /\ retention = retention0)

\* C3 witness: a dry-run pass has found an object that needs an update
C3_Witness ==
    /\ dryRun /\ needsUpdate /\ nQuery > 0 /\ pc = "done"
    /\ resp.err = NoError /\ resp.Retention # Nil

\* C4: needsRetentionUpdate is true for an absent current retention, true for
\* a current retention strictly before the required one, and false for a
\* current retention at or after it.
C4_NeedsUpdateIffAbsentOrBefore ==
    (ret.done /\ call.fn = "needsRetentionUpdate") =>
        /\ call.current = Nil => ret.needs
        /\ (call.current # Nil /\ call.current[1] < call.required) => ret.needs
        /\ (call.current # Nil /\ call.current[1] >= call.required) => ~ret.needs

\* C4 witness: equal timestamps give false
C4_Witness ==
    /\ ret.done /\ call.fn = "needsRetentionUpdate"
    /\ call.current = Some(call.required) /\ ~ret.needs

\* C5: the manifests discovery returns are exactly the keys of the fetched
\* listing pages that end in /meta/manifest.json, each of them once.
C5_DiscoveryReturnsManifestKeysOnce ==
    Discovered =>
        /\ {manifests[i] : i \in 1..Len(manifests)}
               = {k \in seen : HasSuffix(k, ManifestSuffix)}
        /\ \A i, j \in 1..Len(manifests) : manifests[i] = manifests[j] => i = j

\* C5 witness: pages that repeat a manifest key and hold a data-file key
C5_Witness ==
    /\ Discovered /\ listing = Listing2
    /\ Len(manifests) = 2 /\ D1 \in seen /\ D2 \in seen

\* C6: when a listing page fails, discovery returns no manifest key.
C6_ListErrorReturnsNoManifest ==
    listErr => manifests = <<>>

\* C6 witness: the failing page follows pages that held manifest keys
C6_Witness ==
    listErr /\ backupPaths # {} /\ continuationToken # Nil

\* C7: after a listing page has failed the pass issues no GetObject, no
\* GetObjectRetention and no PutObjectRetention, and the store stays as it was.
C7_ListErrorIsFatal ==
    listErr =>
        /\ pc = "fatal"
        /\ nGet = 0 /\ nQuery = 0 /\ nPut = 0
        /\ retention = retention0

\* C7 witness: a later run of the program fails in its listing
C7_Witness ==
    listErr /\ pc = "fatal" /\ pass = 2 /\ prev.done

\* C8 as stated: a top-level mapping with {path} records under "objects"
\* parses without error to those paths in order.
C8_MappingShapeParses ==
    (ret.done /\ call.fn = "parseManifest" /\ call.data.shape = "object") =>
        /\ ~ret.err
        /\ ret.manifest # Nil
        /\ PathsOf(ret.manifest[1]) = call.data.objs

\* the number of objects in the first n entries of a document
RECURSIVE ObjectsBefore(_, _)
ObjectsBefore(entries, n) ==
    IF n = 0 THEN 0
    ELSE ObjectsBefore(entries, n - 1) + Len(entries[n].objects)

\* C9: a sequence of per-table records parses to the records' object lists
\* one after the other: object j of record i is at position (objects of the
\* records before i) + j, and the total is the sum of the list lengths.
C9_ParseConcatenatesInOrder ==
    (/\ ret.done /\ call.fn = "parseManifest" /\ call.data.shape = "array"
     /\ \A i \in 1..Len(call.data.entries) : call.data.entries[i].kind # "scalar")
    =>
        LET es == call.data.entries IN
        /\ ~ret.err
        /\ ret.manifest # Nil
        /\ Len(ret.manifest[1]) = ObjectsBefore(es, Len(es))
        /\ \A i \in 1..Len(es) : \A j \in 1..Len(es[i].objects) :
               ret.manifest[1][ObjectsBefore(es, i - 1) + j].Path = es[i].objects[j]

\* C9 witness: two records, the second repeating a path of the first
C9_Witness ==
    /\ ret.done /\ call.fn = "parseManifest"
    /\ call.data = ArrayDoc(<<Record(<<RelF1, AbsF1>>), Record(<<RelF1>>)>>)
    /\ ~ret.err /\ Len(ret.manifest[1]) = 3

\* C10 as stated: empty input, malformed syntax and every document whose top
\* level is not a sequence fail to parse and yield no manifest.
C10_NonSequenceFailsToParse ==
    (ret.done /\ call.fn = "parseManifest" /\ call.data.shape # "array") =>
        (ret.err /\ ret.manifest = Nil)

\* a document with no table entry, or with only entries whose list is empty
ZeroObjectDoc(d) ==
    /\ d.shape = "array"
    /\ \A i \in 1..Len(d.entries) : d.entries[i] = Record(<<>>)

\* C11: a manifest whose document has no table entry, or only entries with
\* empty object lists, parses without error to zero objects, and the visit of
\* that manifest issues no GetObjectRetention and no PutObjectRetention: the
\* pass goes on with the next manifest.
C11_ZeroObjectManifestIssuesNothing ==
    [][(/\ nGet' = nGet + 1
        /\ status' # "fetch"
        /\ ZeroObjectDoc(bodies[manifestKey']))
       => (/\ status' \in {"ok", "path"}
           /\ objects' = <<>>
           /\ pc' = "manifest" /\ mi' = mi + 1
           /\ nQuery' = nQuery /\ nPut' = nPut /\ nRefs' = nRefs)]_vars

\* C11 witness: a pass is over in which the manifest seen last was fetched,
\* had two entries with empty lists, and nothing was queried for it
C11_Witness ==
    /\ pc = "done" /\ status = "ok" /\ manifestKey = M1
    /\ bodies[M1] = ArrayDoc(<<Record(<<>>), Record(<<>>)>>)
    /\ objects = <<>>
    /\ nGet = Len(manifests)

\* the number of separators of a string
SlashCount(s) == Cardinality({i \in 1..Len(s) : s[i] = "/"})

\* C12: extractHostnamePath fails exactly when the key has fewer than three
\* separators (fewer than four segments, the empty key included), and then
\* returns no prefix; otherwise it returns the key up to and including its
\* second separator.
C12_HostnamePathNeedsFourSegments ==
    (call.fn = "extractHostnamePath" /\ ret.done) =>
        IF SlashCount(call.key) < 3
        THEN ret.err /\ ret.path = <<>>
        ELSE /\ ~ret.err
             /\ \E i \in 1..Len(call.key) :
                  /\ call.key[i] = "/"
                  /\ SlashCount(SubSeq(call.key, 1, i)) = 2
                  /\ ret.path = SubSeq(call.key, 1, i)

\* C12 witness: a key of exactly four segments gave its first two
C12_Witness ==
    /\ call.fn = "extractHostnamePath" /\ ret.done
    /\ call.key = <<"a", "/", "a", "/", "a", "/", "a">>
    /\ ~ret.err /\ ret.path = <<"a", "/", "a", "/">>

\* C13: under a manifest key cluster/host/backup/meta/manifest.json a path
\* that begins with cluster/host/ resolves to itself and any other path p to
\* cluster/host/ followed by p, so that a relative path and the same path
\* under cluster/host/ resolve to one key.
C13_BothFormatsResolveToOneKey ==
    (call.fn = "resolveObjectKey" /\ ret.done) =>
        LET host == SubSeq(call.key, 1, 4)
            rel == IF HasPrefix(call.path, host)
                   THEN SubSeq(call.path, 5, Len(call.path))
                   ELSE call.path
        IN /\ ~ret.err
           /\ ret.path = host \o rel
           /\ HasPrefix(call.path, host) => ret.path = call.path

\* C13 witness: the new-format path of file f1 resolved under manifest M1
C13_Witness ==
    /\ call.fn = "resolveObjectKey" /\ ret.done
    /\ call.key = M1 /\ call.path = AbsF1
    /\ ret.path = D1

\* the answers of GetObjectRetention that checkRetention does not take for
\* an error: the three error codes, and success without a date
AbsentCodes ==
    {"NoSuchObjectLockConfiguration", "ObjectLockConfigurationNotFoundError",
     "NoSuchKey"}
NoExpiryAnswer(r) ==
    /\ r.err = NoError
    /\ (r.Retention = Nil \/ r.Retention[1].RetainUntilDate = Nil)

\* the visit of the current object ends: the next object or the next manifest
VisitEnds ==
    \/ pc' = "object" /\ mi' = mi /\ oi' = oi + 1
    \/ pc' = "manifest" /\ mi' = mi + 1

\* C14: a query that fails with "no lock configuration" or "no such key" is
\* classified as needing an update, as is a query that succeeds without an
\* expiry, and outside dry-run the next store call is a PutObjectRetention for
\* the queried key with the target timestamp.
C14_AbsentRetentionNeedsUpdate ==
    [][/\ (nQuery' = nQuery + 1
           /\ (resp'.err \in AbsentCodes \/ NoExpiryAnswer(resp')))
          => (needsUpdate' /\ (pc' = "update") = ~dryRun)
       /\ (pc = "update" /\ resp.err \in AbsentCodes)
          => (/\ nPut' = nPut + 1
              /\ lastPut'.Key = objectKey
              /\ lastPut'.RetainUntilDate = Some(retentionUntil))]_vars

\* C14 witness: the query of an object without lock configuration failed and
\* the update that followed set the target on it
C14_Witness ==
    /\ resp.err = "NoSuchObjectLockConfiguration"
    /\ nQuery = 1 /\ nPut = 1
    /\ lastPut.Key = objectKey /\ objectKey \in DataKeys
    /\ retention0[objectKey] = Nil
    /\ retention[objectKey] = Some(retentionUntil)

\* C15: a query that fails for any other reason ends the visit of the object:
\* no PutObjectRetention is issued for it, the next query is for another
\* object, and no expiry changes.
C15_OtherQueryErrorSkipsObject ==
    [][(nQuery' = nQuery + 1 /\ resp'.err \notin AbsentCodes \cup {NoError})
       => (/\ VisitEnds
           /\ nPut' = nPut /\ lastPut' = lastPut
           /\ retention' = retention)]_vars

\* C15 witness: outside dry-run the query of the first of two objects, one
\* that has no retention, was denied, and the pass is at the second object
C15_Witness ==
    /\ ~dryRun /\ resp.err = "AccessDenied"
    /\ nQuery = 1 /\ nPut = 0
    /\ pc = "object" /\ oi = 2
    /\ objectKey \in DataKeys /\ retention[objectKey] = Nil

\* C16: a visit is one GetObjectRetention followed by at most one
\* PutObjectRetention, after which the pass is at the next object; a
\* PutObjectRetention that did not set the requested expiry is not repeated
\* and leaves every expiry as it was.
C16_FailedUpdateIsNotRetried ==
    [][/\ pc = "object"
          => (/\ nQuery' = nQuery + 1 /\ nPut' = nPut
              /\ (VisitEnds \/ (pc' = "update" /\ mi' = mi /\ oi' = oi)))
       /\ pc = "update"
          => (/\ nPut' = nPut + 1 /\ nQuery' = nQuery
              /\ VisitEnds)
       /\ (/\ pc = "update"
           /\ \/ lastPut'.Key \notin StoreKeys
              \/ retention'[lastPut'.Key] # lastPut'.RetainUntilDate)
          => retention' = retention]_vars

\* C16 witness: the update of the first of two objects failed, its retention
\* is still absent, and the pass is at the second object
C16_Witness ==
    /\ nQuery = 1 /\ nPut = 1 /\ ~clean
    /\ lastPut.Key = objectKey /\ objectKey \in DataKeys
    /\ retention[objectKey] = Nil
    /\ pc = "object" /\ oi = 2

\* C17: once the listing has succeeded, every object of every manifest that
\* was fetched, decoded and has a valid key is queried: between manifests and
\* at the end of the pass the queries issued are as many as the objects such
\* manifests referenced, and inside a manifest they are one per object passed,
\* whatever the earlier queries and updates answered.
C17_EveryReferencedObjectIsQueried ==
    /\ pc \in {"manifest", "done"} => nQuery = nRefs
    /\ pc = "object" => nQuery = nRefs - Len(objects) + (oi - 1)
    /\ pc = "update" => nQuery = nRefs - Len(objects) + oi

\* C17 witness: a pass is over in which a query was denied and an update
\* failed, and four or more objects were referenced and queried
C17_Witness ==
    /\ pc = "done" /\ nRefs >= 4 /\ nQuery = nRefs
    /\ resp.err = "AccessDenied"
    /\ lastPut.Key \in DataKeys /\ retention[lastPut.Key] = Nil

\* C18: a manifest that cannot be fetched or decoded, or whose key has fewer
\* than four segments, gets no GetObjectRetention and no PutObjectRetention,
\* and the pass goes on with the next manifest: when the manifest loop ends,
\* every discovered manifest has been asked for.
C18_FailedManifestIsSkipped ==
    [][/\ (/\ nGet' = nGet + 1
           /\ \/ parseManifest(bodies[manifestKey']).err
              \/ Len(Split(manifestKey')) < 4)
          => status' # "ok"
       /\ (nGet' = nGet + 1 /\ status' # "ok")
          => (/\ pc' = "manifest" /\ mi' = mi + 1
              /\ nQuery' = nQuery /\ nPut' = nPut /\ nRefs' = nRefs)
       /\ (pc # "done" /\ pc' = "done") => nGet = Len(manifests)]_vars

\* C18 witness: the first manifest had a short key, and the one after it was
\* fetched and its two objects queried
C18_Witness ==
    /\ pc = "done" /\ Len(manifests) >= 2 /\ manifests[1] = MS
    /\ manifestKey = manifests[Len(manifests)] /\ status = "ok"
    /\ nGet = Len(manifests) /\ nQuery = 2

\* C19: every PutObjectRetention is for the resolved key of the object just
\* queried, in governance mode, with an expiry equal to the target of the
\* pass, and the target never changes.
C19_UpdateCarriesKeyModeAndTarget ==
    [][/\ nPut' = nPut + 1
          => (/\ pc = "update"
              /\ objectKey = resolveObjectKey(hostnamePath, objects[oi].Path)
              /\ lastPut' = [Key |-> objectKey,
                             Mode |-> "GOVERNANCE",
                             RetainUntilDate |-> Some(retentionUntil)])
       /\ retentionUntil' = retentionUntil]_vars

\* C19 witness: two objects without retention both hold the target
C19_Witness ==
    /\ nPut = 2 /\ lastPut.Key = D2 /\ lastPut.Mode = "GOVERNANCE"
    /\ retention0[D1] = Nil /\ retention0[D2] = Nil
    /\ retention[D1] = Some(retentionUntil)
    /\ retention[D2] = Some(retentionUntil)

\* C20: a PutObjectRetention is issued only in the step after a query of the
\* same key that checkRetention answered with "needs update", and a query of
\* an object whose expiry is at or after the target is never followed by one.
C20_UpdateOnlyAfterNeedsUpdate ==
    [][/\ nPut' = nPut + 1
          => (/\ pc = "update" /\ needsUpdate
              /\ checkRetention(resp, retentionUntil).needsUpdate
              /\ lastPut'.Key = objectKey)
       /\ (pc # "update" /\ pc' = "update")
          => (nQuery' = nQuery + 1 /\ needsUpdate')
       /\ pc = "update" => pc' # "update"
       /\ (/\ nQuery' = nQuery + 1
           /\ objectKey' \in StoreKeys
           /\ retention[objectKey'] # Nil
           /\ retention[objectKey'][1] >= retentionUntil)
          => (pc' # "update" /\ nPut' = nPut)]_vars

\* C20 witness: outside dry-run a pass is over that updated one object and
\* found the expiry of the object queried last to be sufficient
C20_Witness ==
    /\ ~dryRun /\ pc = "done" /\ nPut = 1 /\ nQuery >= 2
    /\ resp.err = NoError /\ ~needsUpdate
    /\ retention[objectKey][1] >= retentionUntil
    /\ lastPut.Key # objectKey

\* C21 as stated: in a dry-run pass the last query logged the intended
\* update, with the resolved key and the target, exactly when the object was
\* found to need an update.
C21_DryRunLogCarriesKeyAndTarget ==
    (dryRun /\ nQuery > 0) =>
        IF needsUpdate
        THEN logged = [line |-> "[DRY-RUN] Would update retention",
                       key |-> objectKey,
                       until |-> Some(retentionUntil)]
        ELSE logged.line # "[DRY-RUN] Would update retention"

\* C24: no step changes the manifests' contents, the listing or the set of
\* keys; the steps of discovery, manifest download and retention query leave
\* every retention as it is, and an update changes at most the retention of
\* the key resolved from the path of the object being visited.
C24_OnlyReferencedExpiriesChange ==
    [][/\ bodies' = bodies /\ listing' = listing
       /\ DOMAIN retention' = DOMAIN retention
       /\ pc # "update" => retention' = retention
       /\ pc = "update"
          => \A k \in DOMAIN retention :
                 retention'[k] # retention[k]
                     => k = resolveObjectKey(hostnamePath, objects[oi].Path)]_vars

\* C24 witness: a pass is over that changed the retention of a data object
\* and of nothing else
C24_Witness ==
    /\ pc = "done" /\ nPut >= 1
    /\ \E k \in DataKeys : retention[k] # retention0[k]
    /\ \A k \in StoreKeys \ DataKeys : retention[k] = retention0[k]

\* C25: every reference is queried, also one whose key was visited before,
\* and no PutObjectRetention is issued for a key that already holds the
\* target, in particular not after an earlier update of that key succeeded.
C25_DuplicateReferenceIsNotUpdatedAgain ==
    [][/\ pc = "object"
          => (/\ nQuery' = nQuery + 1
              /\ objectKey' = resolveObjectKey(hostnamePath, objects[oi].Path))
       /\ (nPut' = nPut + 1 /\ lastPut'.Key \in StoreKeys)
          => retention[lastPut'.Key] # Some(retentionUntil)]_vars

\* C25 witness: a manifest names one object twice, by its relative and by
\* its full path; the first visit updated it, the second queried it and
\* found nothing to do
C25_Witness ==
    /\ ~dryRun /\ manifestKey = M1 /\ Len(objects) = 2
    /\ resolveObjectKey(hostnamePath, objects[1].Path) = D1
    /\ resolveObjectKey(hostnamePath, objects[2].Path) = D1
    /\ pc \in {"manifest", "done"}
    /\ nQuery = 2 /\ nPut = 1
    /\ retention0[D1] = Nil /\ retention[D1] = Some(retentionUntil)
    /\ resp.err = NoError /\ ~needsUpdate

\* C27: the first ListObjectsV2 call carries no token, every later one the
\* NextContinuationToken of the page before it, which was truncated; every
\* call carries the prefix cluster/, and after a page that is not truncated
\* findManifests returns, so that no further page is asked for.
C27_ListingFollowsTokens ==
    [][nList' = nList + 1
       => (/\ pc = "list"
           /\ listInput'.Prefix = cluster \o Slash
           /\ nList = 0 => listInput'.ContinuationToken = Nil
           /\ nList > 0 =>
                LET before == ListObjectsV2(listing, listInput.Prefix,
                                            listInput.ContinuationToken)
                IN /\ before.IsTruncated
                   /\ listInput'.ContinuationToken = before.NextContinuationToken
           /\ (/\ ~listErr'
               /\ ~ListObjectsV2(listing, listInput'.Prefix,
                                 listInput'.ContinuationToken).IsTruncated)
              => pc' = "manifest")]_vars

\* C27 witness: three pages were asked for, the third with the token of the
\* second; the third was not truncated and named a fourth, whose key was
\* never seen
C27_Witness ==
    /\ listing = Listing4 /\ pc = "done" /\ nList = 3
    /\ listInput.ContinuationToken = Some(3)
    /\ M1 \notin seen

\* C28 as stated: discovery ends for every listing of finitely many pages;
\* since the page is a function of the token, it then asks for no page twice
\* and issues at most as many ListObjectsV2 calls as the listing has pages.
C28_DiscoveryEndsWithinPages ==
    nList <= Len(listing)

\* the paths a manifest document lists, in either of its shapes
DocPathSet(d) ==
    IF d.shape = "object" THEN {d.objs[i] : i \in 1..Len(d.objs)}
    ELSE IF d.shape = "array"
    THEN UNION {{d.entries[i].objects[j] : j \in 1..Len(d.entries[i].objects)} :
                    i \in 1..Len(d.entries)}
    ELSE {}

\* C29 as stated: when a pass that is not a dry run ends and every store call
\* of it succeeded, every object that a discovered manifest with a valid key
\* lists exists and holds a retention at or after the target.
C29_CleanPassProtectsEveryReference ==
    (pc = "done" /\ clean /\ ~dryRun) =>
        \A i \in 1..Len(manifests) :
            LET host == extractHostnamePath(manifests[i]) IN
            ~host.err =>
                \A p \in DocPathSet(bodies[manifests[i]]) :
                    LET k == resolveObjectKey(host.path, p) IN
                    /\ k \in StoreKeys
                    /\ retention[k] # Nil
                    /\ retention[k][1] >= retentionUntil

\* C30 as stated: whatever the cluster name, every key that a
\* GetObjectRetention or a PutObjectRetention of the pass names begins with
\* the prefix cluster/ that findManifests listed.
C30_KeysStayUnderClusterPrefix ==
    /\ nQuery > 0 => HasPrefix(objectKey, cluster \o Slash)
    /\ nPut > 0 => HasPrefix(lastPut.Key, cluster \o Slash)

VisitedKeys(paths) ==
    UNION {LET parsed == parseManifest(bodies[m])
               host == extractHostnamePath(m)
           IN IF Refused("GetObject", m) \/ parsed.err \/ host.err THEN {}
              ELSE {resolveObjectKey(host.path, parsed.manifest[1][i].Path) :
                        i \in 1..Len(parsed.manifest[1])} : m \in paths}

\* the retention a key holds after a pass, as a function of the retention
\* before the pass and of the set of discovered manifests
SteadyFinal(k) ==
    IF /\ ~dryRun
       /\ k \in VisitedKeys(backupPaths)
       /\ ~Refused("GetObjectRetention", k)
       /\ ~Refused("PutObjectRetention", k)
       /\ (retention0[k] = Nil \/ retention0[k][1] < retentionUntil)
    THEN Some(retentionUntil)
    ELSE retention0[k]

\* C22: against a store whose answers depend only on the key and its state,
\* the retention of every object at the end of a pass is a function of the
\* set of discovered manifests and of the store before the pass: it is the
\* same in whatever order ranging over the map handed the manifests to main.
C22_FinalExpiryIgnoresManifestOrder ==
    pc = "done" => \A k \in StoreKeys : retention[k] = SteadyFinal(k)

\* C22 witness: three manifests were processed in the order h2, h1/b2, h1/b1;
\* an object that two of them list was updated, one whose update the store
\* refuses was not
C22_Witness ==
    /\ pc = "done" /\ ~dryRun /\ manifests = <<M3, M2, M1>>
    /\ bodies[M1] = ArrayDoc(<<Record(<<RelF1, RelF2>>)>>)
    /\ retention0[D1] = Nil /\ retention[D1] = Some(retentionUntil)
    /\ Refused("PutObjectRetention", D2)
    /\ retention0[D2] = Nil /\ retention[D2] = Nil

\* every key has been taken and no worker holds an update
WorkersDone ==
    /\ nextJob > Len(jobs)
    /\ \A w \in Workers : wpc[w] = "take"

\* C23: when two workers share the object visits of a pass, no step of either
\* lowers the retention of any object, and when all visits are made every
\* retention is the one that the same visits made one after the other leave.
C23_WorkersAgreeWithSequentialPass ==
    [][/\ \A k \in StoreKeys : ExpiryLeq(retention[k], retention'[k])
       /\ WorkersDone' => retention' = SequentialPass(retention0, 1)]_vars

\* C23 witness: a worker is about to update an object on a decision that is
\* out of date, because the other worker has set the target on it meanwhile
C23_Witness ==
    /\ pc = "workers"
    /\ wpc[1] = "update" /\ wkey[1] = D1
    /\ wpc[2] = "take" /\ nextJob >= 3
    /\ retention0[D1] = Nil /\ retention[D1] = Some(retentionUntil)

\* both runs have visited every key and neither holds an update
RunsDone ==
    \A w \in Workers : runJob[w] > Len(jobs) /\ wpc[w] = "take"

\* the keys that the runs visit, that exist, and on which the bucket refuses
\* neither call
RunKeys ==
    {k \in StoreKeys :
        /\ \E i \in 1..Len(jobs) : jobs[i] = k
        /\ ~Refused("GetObjectRetention", k)
        /\ ~Refused("PutObjectRetention", k)}

LaterTarget ==
    IF runUntil[1] >= runUntil[2] THEN runUntil[1] ELSE runUntil[2]

\* C31: when two runs with different targets overlap on one bucket, the update
\* that a run is about to send never sets an expiry earlier than the one the
\* object has, and when both runs have ended every object they visited expires
\* at or after the later of the two targets.
C31_OverlappingRunsNeverShorten ==
    pc = "runs" /\ ~dryRun /\ runUntil[1] # runUntil[2] =>
        /\ \A w \in Workers :
               wpc[w] = "update" /\ wkey[w] \in RunKeys =>
                   ExpiryLeq(retention[wkey[w]], Some(runUntil[w]))
        /\ RunsDone =>
               \A k \in RunKeys : ExpiryLeq(Some(LaterTarget), retention[k])

====
